---- MODULE Spec2Model ----
(***************************************************************************)
(* Model of the derived-observation core of istSOS                         *)
(* (istsoslib/responders/GOresponse.py): the virtual-procedure framework   *)
(* (sampling-time resolution, dependency map, calculateObservations) and   *)
(* the temporal aggregator applyFunction.                                  *)
(*                                                                         *)
(* Three specifications share the module:                                  *)
(*   Spec      one request on one derivation instance:                     *)
(*             calculateObservations -> setSampligTime -> execute/getData  *)
(*   SpecInst  derivation instances and their dependency maps              *)
(*   SpecAgg   the aggregator applyFunction on one observation             *)
(* Python's None / SQL NULL is the value None; times are integers.         *)
(***************************************************************************)
EXTENDS Integers, Sequences, FiniteSets, TLC

None == -1

SeqToSet(s) == {s[i] : i \in DOMAIN s}

Abs(x) == IF x >= 0 THEN x ELSE -x

(***************************************************************************)
(* Bounded universe of the catalog (table procedures joined with obs_type) *)
(***************************************************************************)
\* names that, when present, are measured (non-virtual) procedures
LeafNames == {"A", "B"}
\* names that are virtual procedures served by a plugin istvp
VirtNames == {"V", "W"}
Names == LeafNames \cup VirtNames

\* (stime_prc, etime_prc): both columns are nullable, independently
Intervals == {<<None, None>>, <<1, 5>>, <<3, 10>>, <<1, None>>}

\* a row of the catalog; name_oty = "absent" stands for "the query returns no row"
AbsentRow == [oty |-> "absent", stime |-> None, etime |-> None]
VirtualRow == [oty |-> "virtual", stime |-> None, etime |-> None]
LeafRows == {[oty |-> "insitu-fixed-point", stime |-> iv[1], etime |-> iv[2]] :
               iv \in Intervals}

\* the keys of a procedures dict, in insertion order
DepLists == {<<>>} \cup {<<a>> : a \in Names}
              \cup {s \in Names \X Names : s[1] # s[2]}
\* the keys of istvp().procedures of a plugin, one order per key set
PluginDepLists == {<<>>} \cup {<<a>> : a \in Names}
              \cup {<<"A", "B">>, <<"A", "V">>, <<"A", "W">>,
                    <<"B", "V">>, <<"B", "W">>, <<"V", "W">>}
\* a plugin folder: does <name>/<name>.py exist, and what the plugin declares
NoPlugin == [file |-> FALSE, procedures |-> <<>>]
Plugins == {NoPlugin} \cup {[file |-> TRUE, procedures |-> d] : d \in PluginDepLists}

\* cap on the length of the candidate list tmp of setSampligTime
MaxTmp == 9

VARIABLES
  \* ---- Spec: one request on one derivation instance
  catalog,          \* name -> row of procedures/obs_type
  plugins,          \* virtual name -> plugin folder
  procedures,       \* keys of self.procedures of the instance
  pc,               \* position of the request
  tmp,              \* candidate list of setSampligTime
  idx,              \* position of "for p in tmp"
  leaves,           \* local list "procedures" of setSampligTime
  samplingTime,     \* self.samplingTime
  obsSamplingTime,  \* observation.samplingTime (<<>> until assigned)
  fetchLog,         \* procedures whose data getData has fetched
  err,              \* the exception that ended the request
  reqFilter,        \* aggregate_interval and aggregate_function of self.filter
  subFilters,       \* the virtualFilter of every getData call that reached setData
  aggRuns           \* how many times applyFunction has run

VARIABLES
  \* ---- SpecInst: derivation instances
  classProcedures,  \* the class attribute VirtualProcess.procedures (one dict)
  insts,            \* instance -> [alive, own, map]: own = the instance has an
                    \* attribute "procedures" of its own, map = that dict
  recorded          \* instance -> names recorded on it since its construction

calcVars == <<reqFilter, subFilters, aggRuns>>

reqVars == <<catalog, plugins, procedures, pc, tmp, idx, leaves, samplingTime,
             obsSamplingTime, fetchLog, err, calcVars>>

instVars == <<classProcedures, insts, recorded>>

VARIABLES
  \* ---- SpecAgg: applyFunction on one observation
  filter,           \* eventTime[0] = (begin, end), aggregate_interval, _function,
                    \* _nodata, _nodata_qi of self.filter
  observation,      \* observedProperty and data of self.observation
  series,           \* observation.data as it was when applyFunction was called
  aggPc,            \* position inside applyFunction
  dt,               \* lower edge of the next bucket
  result            \* bucket edge dt2 -> one list of values per column

aggVars == <<filter, observation, series, aggPc, dt, result>>

VARIABLES
  \* ---- SpecHQ: VirtualProcessHQ.execute on one request
  hqFile,           \* the .rcv file: header names and the cells of every data line
  hqRequest,        \* the caller's filter object, filterRequest of _configure
  hqSent,           \* history: the caller's filter as it was handed to _configure
  hqFilter,         \* self.filter
  hqShared,         \* self.filter is the caller's filter object itself
  hqSub,            \* the virtualFilter of every getData call
  hqInput,          \* the series that getData() returns
  hqCurves,         \* self.hqCurves, one record per loaded segment
  hqPc,             \* position inside execute
  hqData,           \* the local "data" of execute
  hqPos,            \* position of "for rec in data"
  dataOut,          \* data_out
  emitted,          \* history: the rows that each pass of "for rec in data" appended
  hqErr             \* the exception that ended execute

hqVars == <<hqFile, hqRequest, hqSent, hqFilter, hqShared, hqSub, hqInput, hqCurves,
            hqPc, hqData, hqPos, dataOut, emitted, hqErr>>

VARIABLES
  \* ---- SpecProfile: VirtualProcessProfile.execute on one request
  procsInfo,        \* procs_info, each member with its elevation and the series that
                    \* getData returns for it
  profFilter,       \* qualityIndex of self.filter
  profObs,          \* self.obs, the observed properties of the profile
  profData,         \* the local "data" of execute
  profPos,          \* position of "for proc in procs_info"
  profPc,           \* position inside execute
  profErr           \* the exception that ended execute

profVars == <<procsInfo, profFilter, profObs, profData, profPos, profPc, profErr>>

VARIABLES
  \* ---- SpecGO: construction of a GetObservation response
  goVersion,        \* which class: GetObservationResponse or _2_0_0
  goCatalog,        \* name -> what the database holds about the procedure
  goRequest,        \* filter.procedure as the request was sent
  goFilter,         \* filter.procedure of the filter object handed to __init__
  goResult,         \* the rows of the procedures query
  goPos,            \* position of "for o in res" / "for row in result"
  goObs,            \* self.obs, each observation with the branch of setData it took
  goPc,             \* position inside __init__
  goErr             \* the exception that ended __init__

goVars == <<goVersion, goCatalog, goRequest, goFilter, goResult, goPos, goObs, goPc,
            goErr>>

VARIABLES
  \* ---- SpecDS: construction of a DescribeSensor response
  dsCatalog,        \* the row of procedures/obs_type for filter.procedure
  dsEnv,            \* plugin file, sensorMLpath, well.xml, vw_istsos_sensor row
  dsRes,            \* res, the rows of the lookup (<<>> until it has run)
  dsSelf,           \* procedureType, stime, etime, smlFile of the response
  dsPc,             \* position inside __init__
  dsErr             \* the exception that ended __init__

dsVars == <<dsCatalog, dsEnv, dsRes, dsSelf, dsPc, dsErr>>

NoErr == [type |-> "none", names |-> {}]
Unset == <<>>

\* aggregate_function = None: no function name
NoFunction == <<>>
\* the aggregation part of a request filter: none asked, or an interval and a function
RequestFilters ==
  {[aggregate_interval |-> None, aggregate_function |-> NoFunction],
   [aggregate_interval |-> 1, aggregate_function |-> <<"A", "V", "G">>]}

(***************************************************************************)
(* Catalog queries of setSampligTime                                       *)
(***************************************************************************)
\* SELECT name_oty ... WHERE id_oty=id_oty_fk AND name_prc = p: no row when p is absent
ProcedureFound(cat, p) == cat[p].oty # "absent"

IsVirtual(cat, p) == cat[p].oty = "virtual"

\* "result[0] == 0" after SELECT COUNT(*): result is the list of rows (as in
\* "result = result[0]; result[0] == 'virtual'" above it), so result[0] is a row,
\* and a row never equals the integer 0
CountRowEqualsZero(cat, p) == FALSE

\* pnf, the procedures_not_found list
ProceduresNotFound(cat, procs) == {p \in procs : CountRowEqualsZero(cat, p)}

FullyDefined(cat, p) == cat[p].stime # None /\ cat[p].etime # None

\* SELECT min(stime_prc), max(etime_prc) ... WHERE both NOT NULL AND (name_prc=.. OR ..)
\* GROUP BY stime_prc, etime_prc: one row per distinct (stime_prc, etime_prc), and
\* within such a group min(stime_prc) and max(etime_prc) are the group's own values
MultiQuery(cat, procs) ==
  {<<cat[p].stime, cat[p].etime>> : p \in {q \in procs : FullyDefined(cat, q)}}

\* the same query without its NOT NULL filter
SingleQuery_NoFilter(cat, p) == {<<cat[p].stime, cat[p].etime>>}

\* SELECT stime_prc, etime_prc ... WHERE both NOT NULL AND name_prc = p
SingleQuery(cat, p) ==
  IF FullyDefined(cat, p) THEN {<<cat[p].stime, cat[p].etime>>} ELSE {}

\* "if len(result)==0: result = [None, None] else: result = result[0]": the query has
\* no ORDER BY, so any row of the result can be the first
FirstRow(rows) == IF rows = {} THEN {<<None, None>>} ELSE rows

\* the values self.samplingTime can take for the de-duplicated leaf list procs
ResolvedTimes(cat, procs) ==
  IF Cardinality(procs) > 1
    THEN FirstRow(MultiQuery(cat, procs))
    ELSE FirstRow(SingleQuery(cat, CHOOSE p \in procs : TRUE))

(***************************************************************************)
(* Spec: calculateObservations on one derivation instance                  *)
(***************************************************************************)
InitReq ==
  /\ catalog \in {c \in [Names -> LeafRows \cup {AbsentRow, VirtualRow}] :
                    /\ \A n \in LeafNames : c[n] # VirtualRow
                    /\ \A n \in VirtNames : c[n] = VirtualRow}
  /\ plugins \in [VirtNames -> Plugins]
  /\ procedures \in DepLists
  /\ pc = "init"
  /\ tmp = <<>>
  /\ idx = 1
  /\ leaves = <<>>
  /\ samplingTime = <<None, None>>
  /\ obsSamplingTime = Unset
  /\ fetchLog = <<>>
  /\ err = NoErr
  /\ reqFilter \in RequestFilters
  /\ subFilters = <<>>
  /\ aggRuns = 0

\* calculateObservations calling execute() before getSampligTime()
CalculateObservations_ExecuteFirst ==
  /\ UNCHANGED <<instVars, aggVars, hqVars, profVars, calcVars, goVars, dsVars>>
  /\ pc = "init"
  /\ pc' = "execute"
  /\ UNCHANGED <<catalog, plugins, procedures, tmp, idx, leaves, samplingTime,
                 obsSamplingTime, fetchLog, err>>

\* calculateObservations -> getSampligTime -> setSampligTime, up to the loop
CalculateObservations ==
  /\ UNCHANGED <<instVars, aggVars, hqVars, profVars, calcVars, goVars, dsVars>>
  /\ pc = "init"
  /\ IF Len(procedures) = 0
       THEN /\ samplingTime' = <<None, None>>
            /\ obsSamplingTime' = <<None, None>>
            /\ pc' = "execute"
            /\ UNCHANGED <<tmp, idx, leaves>>
       ELSE /\ tmp' = procedures
            /\ idx' = 1
            /\ leaves' = <<>>
            /\ pc' = "resolve"
            /\ UNCHANGED <<samplingTime, obsSamplingTime>>
  /\ UNCHANGED <<catalog, plugins, procedures, fetchLog, err>>

\* one pass of "for p in tmp": p is not in the catalog
VisitNotFound ==
  /\ UNCHANGED <<instVars, aggVars, hqVars, profVars, calcVars, goVars, dsVars>>
  /\ pc = "resolve"
  /\ idx <= Len(tmp)
  /\ ~ProcedureFound(catalog, tmp[idx])
  /\ pc' = "resolve_error"
  /\ err' = [type |-> "SOSException", names |-> {tmp[idx]}]
  /\ UNCHANGED <<catalog, plugins, procedures, tmp, idx, leaves, samplingTime,
                 obsSamplingTime, fetchLog>>

\* a pass over a virtual p that appends nothing
VisitVirtual_NoExpansion ==
  /\ UNCHANGED <<instVars, aggVars, hqVars, profVars, calcVars, goVars, dsVars>>
  /\ pc = "resolve"
  /\ idx <= Len(tmp)
  /\ ProcedureFound(catalog, tmp[idx])
  /\ IsVirtual(catalog, tmp[idx])
  /\ idx' = idx + 1
  /\ UNCHANGED <<catalog, plugins, procedures, pc, tmp, leaves, samplingTime,
                 obsSamplingTime, fetchLog, err>>

\* one pass of "for p in tmp": p is virtual, its plugin's dependencies are appended
VisitVirtual ==
  /\ UNCHANGED <<instVars, aggVars, hqVars, profVars, calcVars, goVars, dsVars>>
  /\ pc = "resolve"
  /\ idx <= Len(tmp)
  /\ ProcedureFound(catalog, tmp[idx])
  /\ IsVirtual(catalog, tmp[idx])
  /\ LET vp == plugins[tmp[idx]]
     IN  tmp' = IF vp.file /\ Len(vp.procedures) > 0
                  THEN tmp \o vp.procedures
                  ELSE tmp
  /\ Len(tmp') <= MaxTmp
  /\ idx' = idx + 1
  /\ UNCHANGED <<catalog, plugins, procedures, pc, leaves, samplingTime,
                 obsSamplingTime, fetchLog, err>>

\* one pass of "for p in tmp": p is a measured procedure
VisitLeaf ==
  /\ UNCHANGED <<instVars, aggVars, hqVars, profVars, calcVars, goVars, dsVars>>
  /\ pc = "resolve"
  /\ idx <= Len(tmp)
  /\ ProcedureFound(catalog, tmp[idx])
  /\ ~IsVirtual(catalog, tmp[idx])
  /\ leaves' = Append(leaves, tmp[idx])
  /\ idx' = idx + 1
  /\ UNCHANGED <<catalog, plugins, procedures, pc, tmp, samplingTime,
                 obsSamplingTime, fetchLog, err>>

\* after the loop: duplicates removed, existence check, the sampling-time query
ResolveFinish ==
  /\ UNCHANGED <<instVars, aggVars, hqVars, profVars, calcVars, goVars, dsVars>>
  /\ pc = "resolve"
  /\ idx > Len(tmp)
  /\ LET procs == SeqToSet(leaves)
         pnf == ProceduresNotFound(catalog, procs)
     IN  IF pnf # {}
           THEN /\ pc' = "resolve_error"
                /\ err' = [type |-> "Exception", names |-> pnf]
                /\ UNCHANGED <<samplingTime, obsSamplingTime>>
           ELSE IF procs = {}
             THEN \* procedures[0] on the empty list
                  /\ pc' = "resolve_error"
                  /\ err' = [type |-> "IndexError", names |-> {}]
                  /\ UNCHANGED <<samplingTime, obsSamplingTime>>
             ELSE /\ samplingTime' \in ResolvedTimes(catalog, procs)
                  /\ obsSamplingTime' = samplingTime'
                  /\ pc' = "execute"
                  /\ err' = err
  /\ UNCHANGED <<catalog, plugins, procedures, tmp, idx, leaves, fetchLog>>

\* the sub-request filter handed on without clearing its aggregation
VirtualFilter_Kept(f, procedure, disableAggregation) ==
  [procedure |-> procedure, disableAggregation |-> disableAggregation,
   aggregate_interval |-> f.aggregate_interval,
   aggregate_function |-> f.aggregate_function]

\* getData's virtualFilter as setData receives it: a deep copy of self.filter for the
\* one procedure, its aggregation cleared "if disableAggregation"
VirtualFilter(f, procedure, disableAggregation) ==
  [procedure |-> procedure, disableAggregation |-> disableAggregation,
   aggregate_interval |-> IF disableAggregation THEN None ELSE f.aggregate_interval,
   aggregate_function |-> IF disableAggregation THEN NoFunction ELSE f.aggregate_function]

\* execute(): one getData call, on the next declared dependency; the plugin passes
\* disableAggregation or leaves its default True
GetData ==
  /\ UNCHANGED <<instVars, aggVars, hqVars, profVars, goVars, dsVars>>
  /\ pc = "execute"
  /\ Len(fetchLog) < Len(procedures)
  /\ LET p == procedures[Len(fetchLog) + 1]
     IN  /\ fetchLog' = Append(fetchLog, p)
         /\ IF ~ProcedureFound(catalog, p)
              THEN UNCHANGED subFilters
              ELSE \E disableAggregation \in BOOLEAN :
                     subFilters' = Append(subFilters,
                                          VirtualFilter(reqFilter, p, disableAggregation))
         /\ IF ~ProcedureFound(catalog, p) \/ (IsVirtual(catalog, p) /\ ~plugins[p].file)
              THEN /\ pc' = "execute_error"
                   /\ err' = [type |-> "Exception", names |-> {p}]
              ELSE UNCHANGED <<pc, err>>
  /\ UNCHANGED <<reqFilter, aggRuns>>
  /\ UNCHANGED <<catalog, plugins, procedures, tmp, idx, leaves, samplingTime,
                 obsSamplingTime>>

\* "if self.filter.aggregate_interval is not None"
AggregationAsked(f) == f.aggregate_interval # None

\* execute() returns: observation.data is its output
ExecuteReturn ==
  /\ UNCHANGED <<instVars, aggVars, hqVars, profVars, calcVars, goVars, dsVars>>
  /\ pc = "execute"
  /\ Len(fetchLog) = Len(procedures)
  /\ pc' = IF AggregationAsked(reqFilter) THEN "aggregate" ELSE "done"
  /\ UNCHANGED <<catalog, plugins, procedures, tmp, idx, leaves, samplingTime,
                 obsSamplingTime, fetchLog, err>>

\* self.applyFunction() on observation.data, calculateObservations ends
ApplyFunctionCall ==
  /\ UNCHANGED <<instVars, aggVars, hqVars, profVars, goVars, dsVars>>
  /\ pc = "aggregate"
  /\ aggRuns' = aggRuns + 1
  /\ pc' = "done"
  /\ UNCHANGED <<catalog, plugins, procedures, tmp, idx, leaves, samplingTime,
                 obsSamplingTime, fetchLog, err, reqFilter, subFilters>>

NextReq ==
  \/ CalculateObservations
  \/ VisitNotFound
  \/ VisitVirtual
  \/ VisitLeaf
  \/ ResolveFinish
  \/ GetData
  \/ ExecuteReturn
  \/ ApplyFunctionCall

(***************************************************************************)
(* SpecInst: derivation instances and the dependency map                   *)
(***************************************************************************)
Instances == {1, 2}
ObsProps == {"urn:x", "urn:y"}

\* a dict name -> observed property
EmptyDict == [n \in {} |-> "urn:x"]
Dicts == UNION {[D -> ObsProps] : D \in SUBSET LeafNames}
DictSet(d, name, op) == [n \in DOMAIN d \cup {name} |-> IF n = name THEN op ELSE d[n]]

NoInstance == [alive |-> FALSE, own |-> FALSE, map |-> EmptyDict]

\* self.procedures: the instance attribute when there is one, else the class attribute
ProceduresOf(i) == IF insts[i].own THEN insts[i].map ELSE classProcedures

IdleInst ==
  /\ classProcedures = EmptyDict
  /\ insts = [i \in Instances |-> NoInstance]
  /\ recorded = [i \in Instances |-> {}]

IdleReq ==
  /\ catalog = [n \in Names |-> AbsentRow]
  /\ plugins = [n \in VirtNames |-> NoPlugin]
  /\ procedures = <<>>
  /\ pc = "idle"
  /\ tmp = <<>>
  /\ idx = 1
  /\ leaves = <<>>
  /\ samplingTime = <<None, None>>
  /\ obsSamplingTime = Unset
  /\ fetchLog = <<>>
  /\ err = NoErr
  /\ reqFilter = [aggregate_interval |-> None, aggregate_function |-> NoFunction]
  /\ subFilters = <<>>
  /\ aggRuns = 0

\* vproc.istvp(): a new instance; "procedures = {}" is a class attribute, the
\* constructor gives the instance no attribute of its own
Construct(i) ==
  /\ UNCHANGED <<reqVars, aggVars, hqVars, profVars, goVars, dsVars>>
  /\ ~insts[i].alive
  /\ insts' = [insts EXCEPT ![i] = [alive |-> TRUE, own |-> FALSE, map |-> EmptyDict]]
  /\ recorded' = [recorded EXCEPT ![i] = {}]
  /\ UNCHANGED classProcedures

\* addProcedure: self.procedures[name] = observedProperty, an item assignment on the
\* dict that the lookup self.procedures finds
AddProcedure(i, name, observedProperty) ==
  /\ UNCHANGED <<reqVars, aggVars, hqVars, profVars, goVars, dsVars>>
  /\ insts[i].alive
  /\ IF insts[i].own
       THEN /\ insts' = [insts EXCEPT ![i].map = DictSet(@, name, observedProperty)]
            /\ UNCHANGED classProcedures
       ELSE /\ classProcedures' = DictSet(classProcedures, name, observedProperty)
            /\ UNCHANGED insts
  /\ recorded' = [recorded EXCEPT ![i] = @ \cup {name}]

\* getProceduresFromOffering: self.procedures = {} and one entry per member found
GetProceduresFromOffering(i, members) ==
  /\ UNCHANGED <<reqVars, aggVars, hqVars, profVars, goVars, dsVars>>
  /\ insts[i].alive
  /\ insts' = [insts EXCEPT ![i] = [alive |-> TRUE, own |-> TRUE, map |-> members]]
  /\ recorded' = [recorded EXCEPT ![i] = DOMAIN members]
  /\ UNCHANGED classProcedures

\* the request ends and its instance is dropped
Discard(i) ==
  /\ UNCHANGED <<reqVars, aggVars, hqVars, profVars, goVars, dsVars>>
  /\ insts[i].alive
  /\ insts' = [insts EXCEPT ![i] = NoInstance]
  /\ recorded' = [recorded EXCEPT ![i] = {}]
  /\ UNCHANGED classProcedures

NextInst ==
  \/ \E i \in Instances : Construct(i)
  \/ \E i \in Instances, n \in LeafNames, op \in ObsProps : AddProcedure(i, n, op)
  \/ \E i \in Instances, m \in Dicts : GetProceduresFromOffering(i, m)
  \/ \E i \in Instances : Discard(i)

\* C5: two derivation instances share no dependency state: an instance's procedures
\* map holds only the names recorded on that instance, and a freshly constructed
\* instance has an empty map.
C5_InstancesShareNothing ==
  \A i \in Instances : insts[i].alive => DOMAIN ProceduresOf(i) \subseteq recorded[i]

(***************************************************************************)
(* SpecAgg: the aggregator applyFunction                                   *)
(* Numbers are fixed-point: the integer n stands for n / 10^4, so that the *)
(* rounding of AVG to 4 decimals is a rounding to an integer.              *)
(***************************************************************************)
\* longest series handed to applyFunction
MaxLen == 3

\* round(x, 4)
Decimals == 4
Scale == 10 ^ Decimals
Fx(n) == n * Scale

Times == 0..3
Begins == {1}
Ends == {4}
\* aggregate_interval in time units; 0 is the duration "PT0S"
Durations == {0, 1, 2}
Values == {Fx(1), Fx(2)}
QualityCodes == {Fx(100), Fx(110)}
\* (aggregate_nodata, aggregate_nodata_qi)
NoDataPairs == {<<-9999000, Fx(-100)>>}

\* a name is the list of its ":"-separated parts, name.split(":")
Temperature == <<"urn", "temperature">>
ObservedPropertyLists == {<<Temperature>>, <<Temperature, Temperature \o <<"qualityIndex">>>>}

\* a function name is the list of its characters
AggregateFunctions ==
  {<<"S", "U", "M">>, <<"M", "a", "x">>, <<"m", "i", "n">>, <<"a", "v", "g">>,
   <<"C", "O", "U", "N", "T">>, <<"M", "E", "D", "I", "A", "N">>}

UpperMap == [a |-> "A", c |-> "C", g |-> "G", i |-> "I", m |-> "M", n |-> "N",
             o |-> "O", s |-> "S", t |-> "T", u |-> "U", v |-> "V", x |-> "X"]

\* str.upper()
Upper(str) == [k \in DOMAIN str |-> IF str[k] \in DOMAIN UpperMap THEN UpperMap[str[k]] ELSE str[k]]

\* observedProperty[v].split(":")[-1] == "qualityIndex"
IsQualityIndex(name) == name[Len(name)] = "qualityIndex"

\* rows (timestamp, value per column) of a series with the given number of columns
Rows(fields) ==
  IF fields = 1 THEN Times \X Values ELSE Times \X Values \X QualityCodes

RECURSIVE SortedSeries(_, _)
\* the series of at most n rows in non-decreasing timestamp order
SortedSeries(fields, n) ==
  IF n = 0 THEN {<<>>}
  ELSE LET shorter == SortedSeries(fields, n - 1)
       IN  shorter \cup
           {Append(s, r) : s \in {q \in shorter : Len(q) = n - 1}, r \in Rows(fields)}

IsSorted(s) == \A k \in 1..(Len(s) - 1) : s[k][1] <= s[k + 1][1]

\* a sample at the lower edge counted in the bucket that the edge opens
InBucket_ClosedOpen(lower, t, upper) == lower <= t /\ t < upper

\* "dt < tmp[0] and tmp[0] <= dt2"
InBucket(lower, t, upper) == lower < t /\ t <= upper

RECURSIVE Scan_StopAtLowerEdge(_, _, _, _, _)
\* a scan that ends at a sample whose timestamp equals the lower edge
Scan_StopAtLowerEdge(data, obsData, lower, upper, bucket) ==
  IF Len(data) = 0
    THEN [data |-> obsData, bucket |-> bucket]
    ELSE LET row == Head(data)
         IN  IF InBucket(lower, row[1], upper)
               THEN Scan_StopAtLowerEdge(Tail(data), Tail(obsData), lower, upper,
                         [c \in DOMAIN bucket |-> Append(bucket[c], row[c + 1])])
               ELSE IF lower > row[1]
                 THEN Scan_StopAtLowerEdge(Tail(data), Tail(obsData), lower, upper, bucket)
                 ELSE [data |-> obsData, bucket |-> bucket]

RECURSIVE Scan(_, _, _, _, _)
\* the inner loop "while len(data) > 0": data is the working copy, obsData is
\* self.observation.data, bucket is result[dt2]; float() keeps the value of a number
Scan(data, obsData, lower, upper, bucket) ==
  IF Len(data) = 0
    THEN [data |-> obsData, bucket |-> bucket]
    ELSE LET row == Head(data)
         IN  IF InBucket(lower, row[1], upper)
               THEN Scan(Tail(data), Tail(obsData), lower, upper,
                         [c \in DOMAIN bucket |-> Append(bucket[c], row[c + 1])])
               ELSE IF lower > row[1]
                 THEN Scan(Tail(data), Tail(obsData), lower, upper, bucket)
                 ELSE IF upper < row[1]
                   THEN [data |-> obsData, bucket |-> bucket]
                   ELSE Scan(Tail(data), obsData, lower, upper, bucket)

RECURSIVE SeqSum(_)
SeqSum(s) == IF Len(s) = 0 THEN 0 ELSE Head(s) + SeqSum(Tail(s))

RECURSIVE SeqMin(_)
SeqMin(s) ==
  IF Len(s) = 1 THEN Head(s)
  ELSE LET m == SeqMin(Tail(s)) IN IF Head(s) <= m THEN Head(s) ELSE m

RECURSIVE SeqMax(_)
SeqMax(s) ==
  IF Len(s) = 1 THEN Head(s)
  ELSE LET m == SeqMax(Tail(s)) IN IF Head(s) >= m THEN Head(s) ELSE m

\* the quotient cut off after the 4th decimal instead of rounded
RoundedQuotient_Truncated(total, n) == total \div n

\* round(total / n, 4): the nearest multiple of 10^-4, a tie going to the even one
RoundedQuotient(total, n) ==
  LET q == total \div n
      r == total % n
  IN  IF 2 * r < n THEN q
      ELSE IF 2 * r > n THEN q + 1
      ELSE IF q % 2 = 0 THEN q ELSE q + 1

\* int(x): the fraction dropped
IntOf(x) == IF x >= 0 THEN (x \div Scale) * Scale ELSE -(((-x) \div Scale) * Scale)

\* the sentinels of an empty bucket, exchanged
NoDataOf_Swapped(f, isQualityIndex) ==
  IF isQualityIndex THEN f.aggregate_nodata ELSE f.aggregate_nodata_qi

\* what an empty bucket emits in a column
NoDataOf(f, isQualityIndex) ==
  IF isQualityIndex THEN f.aggregate_nodata_qi ELSE f.aggregate_nodata

\* COUNT reduced like SUM
Reduction_CountAsSum(function, values) ==
  LET name == Upper(function)
  IN  IF name = <<"S", "U", "M">> THEN SeqSum(values)
      ELSE IF name = <<"M", "A", "X">> THEN SeqMax(values)
      ELSE IF name = <<"M", "I", "N">> THEN SeqMin(values)
      ELSE IF name = <<"A", "V", "G">> THEN RoundedQuotient(SeqSum(values), Len(values))
      ELSE IF name = <<"C", "O", "U", "N", "T">> THEN SeqSum(values)
      ELSE None

\* the elif chain on aggregate_function.upper() for a non-empty bucket; val stays
\* None when no name matches
Reduction(function, values) ==
  LET name == Upper(function)
  IN  IF name = <<"S", "U", "M">> THEN SeqSum(values)
      ELSE IF name = <<"M", "A", "X">> THEN SeqMax(values)
      ELSE IF name = <<"M", "I", "N">> THEN SeqMin(values)
      ELSE IF name = <<"A", "V", "G">> THEN RoundedQuotient(SeqSum(values), Len(values))
      ELSE IF name = <<"C", "O", "U", "N", "T">> THEN Fx(Len(values))
      ELSE None

\* the quality-index column reduced by the requested function like any other column
ColumnValue_QualityReduced(f, name, values) ==
  IF Len(values) = 0 THEN NoDataOf(f, IsQualityIndex(name))
  ELSE Reduction(f.aggregate_function, values)

\* one entry of a record: column v of the bucket with the given values
ColumnValue(f, name, values) ==
  IF IsQualityIndex(name)
    THEN IF Len(values) = 0 THEN NoDataOf(f, TRUE) ELSE IntOf(SeqMin(values))
    ELSE IF Len(values) = 0 THEN NoDataOf(f, FALSE)
         ELSE Reduction(f.aggregate_function, values)

RECURSIVE Records_Descending(_, _, _, _)
\* the records built from the latest edge down to the earliest
Records_Descending(f, obs, res, edges) ==
  IF edges = {} THEN <<>>
  ELSE LET r == CHOOSE e \in edges : \A e2 \in edges : e >= e2
       IN  <<(<<r>> \o [v \in DOMAIN res[r] |->
                          ColumnValue(f, obs.observedProperty[v], res[r][v])])>>
           \o Records_Descending(f, obs, res, edges \ {r})

RECURSIVE Records(_, _, _, _)
\* "for r in sorted(result)": one record per bucket edge, edges ascending
Records(f, obs, res, edges) ==
  IF edges = {} THEN <<>>
  ELSE LET r == CHOOSE e \in edges : \A e2 \in edges : e <= e2
       IN  <<(<<r>> \o [v \in DOMAIN res[r] |->
                          ColumnValue(f, obs.observedProperty[v], res[r][v])])>>
           \o Records(f, obs, res, edges \ {r})

EmptyResult == [e \in {} |-> <<>>]

IdleAgg ==
  /\ filter = [begin |-> 0, end |-> 0, aggregate_interval |-> 1,
               aggregate_function |-> <<>>, aggregate_nodata |-> 0,
               aggregate_nodata_qi |-> 0]
  /\ observation = [observedProperty |-> <<>>, data |-> <<>>]
  /\ series = <<>>
  /\ aggPc = "idle"
  /\ dt = 0
  /\ result = EmptyResult

InitAgg ==
  /\ filter \in {[begin |-> b, end |-> e, aggregate_interval |-> d,
                  aggregate_function |-> fn, aggregate_nodata |-> nd[1],
                  aggregate_nodata_qi |-> nd[2]] :
                   b \in Begins, e \in Ends, d \in Durations,
                   fn \in AggregateFunctions, nd \in NoDataPairs}
  /\ observation \in UNION {[observedProperty : {ops}, data : SortedSeries(Len(ops), MaxLen)] :
                              ops \in ObservedPropertyLists}
  /\ IsSorted(observation.data)
  /\ series = observation.data
  /\ aggPc = "call"
  /\ dt = 0
  /\ result = EmptyResult

\* applyFunction up to its loop: begin, end, duration parsed, result = {}, dt = begin
ApplyFunction ==
  /\ UNCHANGED <<reqVars, instVars, hqVars, profVars, goVars, dsVars>>
  /\ aggPc = "call"
  /\ dt' = filter.begin
  /\ result' = EmptyResult
  /\ aggPc' = "loop"
  /\ UNCHANGED <<filter, observation, series>>

\* one pass of "while dt < end": the bucket (dt, dt2] is filled
BucketPass ==
  /\ UNCHANGED <<reqVars, instVars, hqVars, profVars, goVars, dsVars>>
  /\ aggPc = "loop"
  /\ dt < filter.end
  /\ LET dt2 == dt + filter.aggregate_interval
         fields == Len(observation.observedProperty)
         scan == Scan(observation.data, observation.data, dt, dt2,
                      [c \in 1..fields |-> <<>>])
     IN  /\ result' = [e \in DOMAIN result \cup {dt2} |->
                         IF e = dt2 THEN scan.bucket ELSE result[e]]
         /\ observation' = [observation EXCEPT !.data = scan.data]
         /\ dt' = dt2
  /\ UNCHANGED <<filter, series, aggPc>>

\* after the loop: the records are built and replace observation.data
BuildRecords ==
  /\ UNCHANGED <<reqVars, instVars, hqVars, profVars, goVars, dsVars>>
  /\ aggPc = "loop"
  /\ ~(dt < filter.end)
  /\ observation' = [observation EXCEPT
                       !.data = Records(filter, observation, result, DOMAIN result)]
  /\ aggPc' = "done"
  /\ UNCHANGED <<filter, series, dt, result>>

NextAgg ==
  \/ ApplyFunction
  \/ BucketPass
  \/ BuildRecords

(***************************************************************************)
(* SpecHQ: the rating curve, VirtualProcessHQ                              *)
(* Timestamps are integers; readings, coefficients and outputs are         *)
(* fixed-point like the aggregator's numbers; quality codes are integers.  *)
(***************************************************************************)
\* most data lines of a .rcv file
MaxRows == 2
\* longest series returned by getData()
MaxRecs == 2

\* -999.9, written for a sample without a usable reading
NoValue == -9999000

HeaderNames == <<"from", "to", "low_val", "up_val", "A", "B", "C", "K">>
\* the column orders of the file: the usual one, "to" before "from", coefficients first
Headers ==
  {HeaderNames,
   <<"to", "from", "low_val", "up_val", "A", "B", "C", "K">>,
   <<"A", "B", "from", "to", "low_val", "up_val", "C", "K">>}

\* the segments a file can hold, one field per column name
Segments ==
  {[from |-> 0, to |-> 4, low_val |-> 2, up_val |-> 5, A |-> 1, B |-> 0, C |-> 1, K |-> 0],
   [from |-> 0, to |-> 8, low_val |-> 0, up_val |-> 10, A |-> 2, B |-> 3, C |-> 2, K |-> 1],
   [from |-> 8, to |-> 12, low_val |-> 0, up_val |-> 4, A |-> 1, B |-> 0, C |-> 1, K |-> 5]}

\* the request windows: none, a period, an instant. style is how the texts are
\* written: "basic" has neither a "+" nor a "-" before its last 8 characters
\* (20200101T050000), "extended" has the dashes of the date (2020-01-01T02:00:00)
EventTimes ==
  {[given |-> FALSE, times |-> <<>>, style |-> "none"],
   [given |-> TRUE, times |-> <<(<<5, 7>>)>>, style |-> "basic"],
   [given |-> TRUE, times |-> <<(<<2>>)>>, style |-> "extended"]}

\* the filter objects a caller hands to _configure
Filters ==
  [eventTime : EventTimes, qualityIndex : BOOLEAN, procedure : {<<"Q">>},
   observedProperty : {<<"discharge">>}, aggregate_interval : {1},
   aggregate_function : {<<"A", "V", "G">>}]

\* the one procedure added to the derivation, list(self.procedures.keys())[0]
FirstProcedure == "H"

\* 8 is the 'to' of one segment and the 'from' of another; 2 and 5 are the lower and
\* the upper value bound of a segment
SampleTimes == {2, 8}
Readings == {None, Fx(-1000), Fx(2), Fx(5)}

\* the rows getData() returns: (time, value, quality) when qualityIndex, else (time, value)
Samples(qualityIndex) ==
  IF qualityIndex THEN SampleTimes \X Readings \X {100} ELSE SampleTimes \X Readings

RECURSIVE SeqsUpTo(_, _)
\* the sequences of at most n elements of S
SeqsUpTo(S, n) ==
  IF n = 0 THEN {<<>>}
  ELSE LET shorter == SeqsUpTo(S, n - 1)
       IN  shorter \cup {Append(q, x) : q \in {r \in shorter : Len(r) = n - 1}, x \in S}

\* lines[l].split("|") of a data line written under the header head: a cell holds a
\* date-time text or a number text
LineOf(head, segment) ==
  [i \in DOMAIN head |->
     [kind |-> IF head[i] \in {"from", "to"} THEN "datetime" ELSE "float",
      v |-> segment[head[i]]]]

\* head.index(name)
Index(head, name) == CHOOSE i \in DOMAIN head : head[i] = name /\ \A j \in 1..(i - 1) : head[j] # name

\* iso.parse_datetime raises on a text that is not a date-time
Parses(cell) == cell.kind = "datetime"
ParseDatetime(cell) == cell.v

\* float(text)
FloatOf(cell) == Fx(cell.v)

\* tp and "period = (min(tp), max(tp))" for a given eventTime
Period(eventTime) ==
  LET tp == UNION {SeqToSet(eventTime[k]) : k \in DOMAIN eventTime}
  IN  <<CHOOSE x \in tp : \A y \in tp : x <= y, CHOOSE x \in tp : \A y \in tp : x >= y>>

\* the eight appends of one line, the positions taken from the header
CurveOf(head, line) ==
  [from |-> ParseDatetime(line[Index(head, "from")]),
   to |-> ParseDatetime(line[Index(head, "to")]),
   low |-> FloatOf(line[Index(head, "low_val")]),
   up |-> FloatOf(line[Index(head, "up_val")]),
   A |-> FloatOf(line[Index(head, "A")]),
   B |-> FloatOf(line[Index(head, "B")]),
   C |-> FloatOf(line[Index(head, "C")]),
   K |-> FloatOf(line[Index(head, "K")])]

RECURSIVE LoadCurves(_, _, _, _, _)
\* "for l in range(1, len(lines))" with the test
\* "parse_datetime(line[1]) > period[0] or parse_datetime(line[0]) <= period[1]":
\* line[1] and line[0] are the second and the first cell of the line, and the second
\* operand is evaluated only when the first is false
LoadCurves(head, lines, period, l, hqs) ==
  IF l > Len(lines) THEN [raised |-> FALSE, hqs |-> hqs]
  ELSE LET line == lines[l]
       IN  IF ~Parses(line[2]) THEN [raised |-> TRUE, hqs |-> hqs]
           ELSE IF ParseDatetime(line[2]) > period[1]
             THEN LoadCurves(head, lines, period, l + 1, Append(hqs, CurveOf(head, line)))
             ELSE IF ~Parses(line[1]) THEN [raised |-> TRUE, hqs |-> hqs]
               ELSE IF ParseDatetime(line[1]) <= period[2]
                 THEN LoadCurves(head, lines, period, l + 1, Append(hqs, CurveOf(head, line)))
                 ELSE LoadCurves(head, lines, period, l + 1, hqs)

\* a * b of two fixed-point numbers
FxMul(a, b) == (a \div Scale) * b + RoundedQuotient((a % Scale) * b, Scale)

RECURSIVE FxPow(_, _)
\* x ** c for a whole exponent c
FxPow(x, c) == IF c <= 0 THEN Fx(1) ELSE FxMul(x, FxPow(x, c - Fx(1)))

\* "%.4f" % (K + A * ((float(rec[1]) - B) ** C)): a text of 4 decimals
Transform(curve, value) ==
  [text |-> TRUE, num |-> curve.K + FxMul(curve.A, FxPow(value - curve.B, curve.C))]

\* the time test closed at 'from' as well
Matches_ClosedFrom(curve, rec) ==
  /\ curve.from <= rec[1] /\ rec[1] <= curve.to
  /\ curve.low <= rec[2] /\ rec[2] < curve.up

\* the number -999.9
Rejected == [text |-> FALSE, num |-> NoValue]

\* an appended row: the quality column only under qualityIndex
OutRow(rec, value, quality, qualityIndex) ==
  IF qualityIndex THEN <<rec[1], value, quality>> ELSE <<rec[1], value>>

\* "(from[o] < rec[0] <= to[o]) and (low[o] <= float(rec[1]) < up[o])"
Matches(curve, rec) ==
  /\ curve.from < rec[1] /\ rec[1] <= curve.to
  /\ curve.low <= rec[2] /\ rec[2] < curve.up

RECURSIVE Lookup_LastMatch(_, _, _, _)
\* the search going on after a match, so that the last matching segment decides
Lookup_LastMatch(rec, curves, o, qualityIndex) ==
  LET later == {j \in o..Len(curves) : Matches(curves[j], rec)}
      last == CHOOSE j \in later : \A i \in later : i <= j
  IN  IF rec[2] = None \/ later = {}
        THEN IF Len(curves) = 0 THEN <<>> ELSE <<OutRow(rec, Rejected, 120, qualityIndex)>>
        ELSE IF rec[2] - curves[last].B >= 0
          THEN <<OutRow(rec, Transform(curves[last], rec[2]),
                        IF qualityIndex THEN rec[3] ELSE None, qualityIndex)>>
          ELSE <<OutRow(rec, Rejected, 120, qualityIndex)>>

RECURSIVE Lookup(_, _, _, _)
\* "for o in range(len(self.hqCurves['from']))" from segment o on: the rows it appends
Lookup(rec, curves, o, qualityIndex) ==
  IF o > Len(curves) THEN <<>>
  ELSE IF rec[2] = None
    THEN <<OutRow(rec, Rejected, 120, qualityIndex)>>
    ELSE IF Matches(curves[o], rec)
      THEN IF rec[2] - curves[o].B >= 0
             THEN <<OutRow(rec, Transform(curves[o], rec[2]),
                           IF qualityIndex THEN rec[3] ELSE None, qualityIndex)>>
             ELSE <<OutRow(rec, Rejected, 120, qualityIndex)>>
      ELSE (IF o = Len(curves) THEN <<OutRow(rec, Rejected, 120, qualityIndex)>> ELSE <<>>)
           \o Lookup(rec, curves, o + 1, qualityIndex)

\* one pass of "for rec in data": under qualityIndex a missing reading or one below
\* -999.0 is answered before the search
RowsOf(rec, curves, qualityIndex) ==
  IF qualityIndex /\ (rec[2] = None \/ rec[2] < Fx(-999))
    THEN <<(<<rec[1], Rejected, 110>>)>>
    ELSE Lookup(rec, curves, 1, qualityIndex)

\* self.filter bound to the caller's object, without a copy
ConfigureFilter_SameObject(filterRequest) == [filter |-> filterRequest, same |-> TRUE]

\* _configure, "self.filter = copy.deepcopy(filterRequest)": a new object with the
\* same content; same tells whether self.filter is the object filterRequest itself
ConfigureFilter(filterRequest) == [filter |-> filterRequest, same |-> FALSE]

\* 'if t[0].find('+')==-1 and t[0][:-8].find('-')== -1: t[0] += "+00:00"', and the
\* same for t[1], on every entry of eventTime
Rewritten(eventTime) ==
  [eventTime EXCEPT !.style = IF @ = "basic" THEN "basic+00:00" ELSE @]

NoFilter ==
  [eventTime |-> [given |-> FALSE, times |-> <<>>, style |-> "none"],
   qualityIndex |-> FALSE, procedure |-> <<>>, observedProperty |-> <<>>,
   aggregate_interval |-> None, aggregate_function |-> NoFunction]

IdleHQ ==
  /\ hqFile = [head |-> HeaderNames, lines |-> <<>>]
  /\ hqRequest = NoFilter
  /\ hqSent = NoFilter
  /\ hqFilter = NoFilter
  /\ hqShared = FALSE
  /\ hqSub = <<>>
  /\ hqInput = <<>>
  /\ hqCurves = <<>>
  /\ hqPc = "idle"
  /\ hqData = <<>>
  /\ hqPos = 1
  /\ dataOut = <<>>
  /\ emitted = <<>>
  /\ hqErr = "none"

InitHQ ==
  /\ hqFile \in {[head |-> h, lines |-> [k \in DOMAIN t |-> LineOf(h, t[k])]] :
                   h \in Headers, t \in SeqsUpTo(Segments, MaxRows)}
  /\ hqRequest \in Filters
  /\ hqSent = hqRequest
  /\ hqFilter = NoFilter
  /\ hqShared = FALSE
  /\ hqSub = <<>>
  /\ hqInput \in SeqsUpTo(Samples(hqRequest.qualityIndex), MaxRecs)
  /\ IsSorted(hqInput)
  /\ hqCurves = <<>>
  /\ hqPc = "configure"
  /\ hqData = <<>>
  /\ hqPos = 1
  /\ dataOut = <<>>
  /\ emitted = <<>>
  /\ hqErr = "none"

\* vp._configure(filter, pgdb, props) of Observation.setData
Configure ==
  /\ UNCHANGED <<reqVars, instVars, aggVars, profVars, goVars, dsVars>>
  /\ hqPc = "configure"
  /\ hqFilter' = ConfigureFilter(hqRequest).filter
  /\ hqShared' = ConfigureFilter(hqRequest).same
  /\ hqPc' = "call"
  /\ UNCHANGED <<hqFile, hqRequest, hqSent, hqSub, hqInput, hqCurves, hqData, hqPos,
                 dataOut, emitted, hqErr>>

\* execute -> setDischargeCurves: with eventTime None tp is [None, None] and min(tp)
\* raises TypeError; else the texts of self.filter.eventTime are rewritten in place,
\* and a cell of the time test that is no date-time raises
SetDischargeCurves ==
  /\ UNCHANGED <<reqVars, instVars, aggVars, profVars, goVars, dsVars>>
  /\ hqPc = "call"
  /\ IF ~hqFilter.eventTime.given
       THEN /\ hqPc' = "error"
            /\ hqErr' = "TypeError"
            /\ UNCHANGED <<hqCurves, hqFilter, hqRequest>>
       ELSE LET loaded == LoadCurves(hqFile.head, hqFile.lines,
                                     Period(hqFilter.eventTime.times), 1, <<>>)
                filter_ == [hqFilter EXCEPT !.eventTime = Rewritten(@)]
            IN  /\ hqFilter' = filter_
                /\ hqRequest' = IF hqShared THEN filter_ ELSE hqRequest
                /\ IF loaded.raised
                     THEN /\ hqPc' = "error"
                          /\ hqErr' = "ISO8601Error"
                          /\ UNCHANGED hqCurves
                     ELSE /\ hqCurves' = loaded.hqs
                          /\ hqPc' = "getdata"
                          /\ UNCHANGED hqErr
  /\ UNCHANGED <<hqFile, hqSent, hqShared, hqSub, hqInput, hqData, hqPos, dataOut,
                 emitted>>

\* data = self.getData(): the sub-request is built on a deep copy of self.filter,
\* disableAggregation keeps its default True
ExecuteGetData ==
  /\ UNCHANGED <<reqVars, instVars, aggVars, profVars, goVars, dsVars>>
  /\ hqPc = "getdata"
  /\ hqSub' = Append(hqSub, VirtualFilter(hqFilter, FirstProcedure, TRUE))
  /\ hqData' = hqInput
  /\ hqPos' = 1
  /\ dataOut' = <<>>
  /\ hqPc' = "loop"
  /\ UNCHANGED <<hqFile, hqRequest, hqSent, hqFilter, hqShared, hqInput, hqCurves,
                 emitted, hqErr>>

\* one pass of "for rec in data"
ExecuteRecord ==
  /\ UNCHANGED <<reqVars, instVars, aggVars, profVars, goVars, dsVars>>
  /\ hqPc = "loop"
  /\ hqPos <= Len(hqData)
  /\ dataOut' = dataOut \o RowsOf(hqData[hqPos], hqCurves, hqFilter.qualityIndex)
  /\ emitted' = Append(emitted, RowsOf(hqData[hqPos], hqCurves, hqFilter.qualityIndex))
  /\ hqPos' = hqPos + 1
  /\ UNCHANGED <<hqFile, hqRequest, hqSent, hqFilter, hqShared, hqSub, hqInput, hqCurves,
                 hqPc, hqData, hqErr>>

\* return data_out
ExecuteDone ==
  /\ UNCHANGED <<reqVars, instVars, aggVars, profVars, goVars, dsVars>>
  /\ hqPc = "loop"
  /\ hqPos > Len(hqData)
  /\ hqPc' = "done"
  /\ UNCHANGED <<hqFile, hqRequest, hqSent, hqFilter, hqShared, hqSub, hqInput, hqCurves,
                 hqData, hqPos, dataOut, emitted, hqErr>>

NextHQ ==
  \/ Configure
  \/ SetDischargeCurves
  \/ ExecuteGetData
  \/ ExecuteRecord
  \/ ExecuteDone

(***************************************************************************)
(* SpecProfile: the profile composition, VirtualProcessProfile             *)
(* Elevations and depths are whole tenths, so round(x, 1) changes nothing. *)
(***************************************************************************)
\* most members of a profile
MaxMembers == 2

\* self.coords[2]
CoordsZ == 100

\* st_z of the member at a position of the result: "ORDER BY st_z DESC"
ElevationOf(position) == 50 - 10 * position

ProfileTimes == {1, 2}

\* the rows getData can return for a member that measures k of the input properties:
\* (time, value[, quality]) per property
MemberRows(k, qualityIndex) ==
  IF qualityIndex
    THEN IF k = 1 THEN ProfileTimes \X {1} \X {100, 110}
         ELSE ProfileTimes \X {1} \X {100} \X {1} \X {100, 110}
    ELSE IF k = 1 THEN ProfileTimes \X {1, 2}
         ELSE ProfileTimes \X {1} \X {1, 2}

\* the series of a member: at most two rows in timestamp order
MemberSeries(qualityIndex) ==
  UNION {{q \in SeqsUpTo(MemberRows(k, qualityIndex), 2) : IsSorted(q)} : k \in {1, 2}}

\* the values of self.obs: one or two measured properties and the depth, each with
\* its ":qualityIndex" twin under qualityIndex
ObsLists ==
  {<<"a", "depth">>, <<"a", "b", "depth">>,
   <<"a", "a:qualityIndex", "depth", "depth:qualityIndex">>,
   <<"a", "a:qualityIndex", "b", "b:qualityIndex", "depth", "depth:qualityIndex">>}

\* round(abs(self.coords[2] - proc[2]), 1)
DepthOf(z) == Abs(CoordsZ - z)

\* list(map(add, data_temp, depths_list))
WithDepth(dataTemp, z, qualityIndex) ==
  [k \in DOMAIN dataTemp |->
     dataTemp[k] \o (IF qualityIndex THEN <<DepthOf(z), 100>> ELSE <<DepthOf(z)>>)]

RECURSIVE InsertAscending(_, _, _)
\* row put behind the rows whose column c is not greater
InsertAscending(s, row, c) ==
  IF Len(s) = 0 THEN <<row>>
  ELSE IF row[c] < Head(s)[c] THEN <<row>> \o s
       ELSE <<Head(s)>> \o InsertAscending(Tail(s), row, c)

RECURSIVE InsertDescending(_, _, _)
\* row put behind the rows whose column c is not smaller
InsertDescending(s, row, c) ==
  IF Len(s) = 0 THEN <<row>>
  ELSE IF row[c] > Head(s)[c] THEN <<row>> \o s
       ELSE <<Head(s)>> \o InsertDescending(Tail(s), row, c)

RECURSIVE SortAscending(_, _)
\* data.sort(key=lambda row: row[c - 1]): stable
SortAscending(s, c) ==
  IF Len(s) = 0 THEN <<>>
  ELSE InsertAscending(SortAscending(SubSeq(s, 1, Len(s) - 1), c), s[Len(s)], c)

RECURSIVE SortDescending(_, _)
\* data.sort(key=lambda row: row[c - 1], reverse=True): stable, rows of equal key
\* keep their order
SortDescending(s, c) ==
  IF Len(s) = 0 THEN <<>>
  ELSE InsertDescending(SortDescending(SubSeq(s, 1, Len(s) - 1), c), s[Len(s)], c)

\* the column of the second sort: row[4] under qualityIndex, else row[3]
SecondKey(qualityIndex) == IF qualityIndex THEN 5 ELSE 4

IdleProfile ==
  /\ procsInfo = <<>>
  /\ profFilter = [qualityIndex |-> FALSE]
  /\ profObs = <<>>
  /\ profData = <<>>
  /\ profPos = 1
  /\ profPc = "idle"
  /\ profErr = "none"

InitProfile ==
  /\ profFilter \in [qualityIndex : BOOLEAN]
  /\ procsInfo \in {[m \in DOMAIN members |-> [z |-> ElevationOf(m), data |-> members[m]]] :
                      members \in SeqsUpTo(MemberSeries(profFilter.qualityIndex), MaxMembers)}
  /\ profObs \in ObsLists
  /\ profData = <<>>
  /\ profPos = 1
  /\ profPc = "loop"
  /\ profErr = "none"

\* one pass of "for proc in procs_info": the member's series, when it has rows, is
\* extended by the depth columns and added to data
ProfileMember ==
  /\ UNCHANGED <<reqVars, instVars, aggVars, hqVars, goVars, dsVars>>
  /\ profPc = "loop"
  /\ profPos <= Len(procsInfo)
  /\ LET dataTemp == procsInfo[profPos].data
     IN  profData' = IF Len(dataTemp) > 0
                       THEN profData \o WithDepth(dataTemp, procsInfo[profPos].z,
                                                  profFilter.qualityIndex)
                       ELSE profData
  /\ profPos' = profPos + 1
  /\ UNCHANGED <<procsInfo, profFilter, profObs, profPc, profErr>>

\* after the loop: the two sorts, the width test on data[0], return data
ProfileSort ==
  /\ UNCHANGED <<reqVars, instVars, aggVars, hqVars, goVars, dsVars>>
  /\ profPc = "loop"
  /\ profPos > Len(procsInfo)
  /\ LET c == SecondKey(profFilter.qualityIndex)
         byTime == SortAscending(profData, 1)
     IN  IF \E k \in DOMAIN byTime : Len(byTime[k]) < c
           THEN \* row[4] or row[3] of a shorter row
                /\ profData' = byTime
                /\ profPc' = "error"
                /\ profErr' = "IndexError"
           ELSE LET data == SortDescending(byTime, c)
                IN  /\ profData' = data
                    /\ IF Len(data) = 0
                         THEN \* data[0] of the empty list
                              /\ profPc' = "error"
                              /\ profErr' = "IndexError"
                         ELSE IF Len(profObs) # Len(data[1]) - 1
                           THEN /\ profPc' = "error"
                                /\ profErr' = "Number of observed properties mismatches"
                           ELSE /\ profPc' = "done"
                                /\ profErr' = "none"
  /\ UNCHANGED <<procsInfo, profFilter, profObs, profPos>>

NextProfile ==
  \/ ProfileMember
  \/ ProfileSort

(***************************************************************************)
(* SpecGO: GetObservationResponse.__init__ and                             *)
(* GetObservationResponse_2_0_0.__init__                                   *)
(***************************************************************************)
GoNames == {"A", "V"}
Versions == {"1.0.0", "2.0.0"}

\* what the database holds about one procedure: name_oty of its obs_type
\* ("absent": no row in procedures), whether off_proc lists it in the offering,
\* whether it satisfies the other conditions of the procedures query (observed
\* property, feature of interest, event time), whether <name>/<name>.py exists
GoAbsent == [oty |-> "absent", offered |-> FALSE, matches |-> FALSE, plugin |-> FALSE]
GoRows(n) ==
  {GoAbsent} \cup
  IF n = "V"
    THEN [oty : {"virtual"}, offered : BOOLEAN, matches : BOOLEAN, plugin : BOOLEAN]
    ELSE [oty : {"insitu-fixed-point"}, offered : BOOLEAN, matches : BOOLEAN,
          plugin : {FALSE}]

\* filter.procedure of a request
GoProcedureLists == {<<>>, <<"A">>, <<"V">>, <<"A", "V">>, <<"V", "A">>}

\* the orders in which a query without ORDER BY can return the rows named S
Orders(S) == {s \in SeqsUpTo(S, Cardinality(S)) :
                Len(s) = Cardinality(S) /\ SeqToSet(s) = S}

\* BuildProcedureCount: the named procedures that off_proc lists in the offering
BuildProcedureCount(cat, names) ==
  Cardinality({n \in SeqToSet(names) : cat[n].oty # "absent" /\ cat[n].offered})

\* the rows that satisfy the WHERE clause of a procedures query
Selected(cat, names) ==
  {n \in GoNames : /\ cat[n].oty # "absent"
                   /\ cat[n].matches
                   /\ (names # <<>> => n \in SeqToSet(names))}

\* GetObservationResponse: "concat('insitu-fixed-point','') as name_oty"
ProcedureRow_1_0_0(cat, n) == [name_prc |-> n, name_oty |-> "insitu-fixed-point"]
\* GetObservationResponse_2_0_0: "obs_type.name_oty"
ProcedureRow_2_0_0(cat, n) == [name_prc |-> n, name_oty |-> cat[n].oty]

IdleGO ==
  /\ goVersion = "1.0.0"
  /\ goCatalog = [n \in GoNames |-> GoAbsent]
  /\ goRequest = <<>>
  /\ goFilter = [procedure |-> <<>>]
  /\ goResult = <<>>
  /\ goPos = 1
  /\ goObs = <<>>
  /\ goPc = "idle"
  /\ goErr = "none"

InitGO ==
  /\ goVersion \in Versions
  /\ goCatalog \in {c \in [GoNames -> UNION {GoRows(n) : n \in GoNames}] :
                      \A n \in GoNames : c[n] \in GoRows(n)}
  /\ goRequest \in GoProcedureLists
  /\ goFilter = [procedure |-> goRequest]
  /\ goResult = <<>>
  /\ goPos = 1
  /\ goObs = <<>>
  /\ goPc = "check"
  /\ goErr = "none"

\* GetObservationResponse: "if filter.procedure: pl = BuildProcedureCount(...);
\* if not pl: raise SOSException"
CheckProcedure_1_0_0 ==
  /\ UNCHANGED <<reqVars, instVars, aggVars, hqVars, profVars, dsVars>>
  /\ goPc = "check"
  /\ goVersion = "1.0.0"
  /\ IF goFilter.procedure # <<>> /\ BuildProcedureCount(goCatalog, goFilter.procedure) = 0
       THEN goPc' = "error" /\ goErr' = "SOSException:InvalidParameterValue:procedure"
       ELSE goPc' = "select" /\ goErr' = goErr
  /\ UNCHANGED <<goVersion, goCatalog, goRequest, goFilter, goResult, goPos, goObs>>

\* GetObservationResponse_2_0_0: one "exists" row per named procedure; filter.procedure
\* is rebuilt from the rows, a row that does not exist raises SOSException; the return
\* on an empty rebuilt list follows the loop
CheckProcedure_2_0_0 ==
  /\ UNCHANGED <<reqVars, instVars, aggVars, hqVars, profVars, dsVars>>
  /\ goPc = "check"
  /\ goVersion = "2.0.0"
  /\ IF goFilter.procedure # <<>>
       THEN \E rows \in Orders(SeqToSet(goFilter.procedure)) :
              LET exist_prc(k) == goCatalog[rows[k]].oty # "absent"
                  missing == {k \in DOMAIN rows : ~exist_prc(k)}
                  stop == IF missing = {} THEN Len(rows) + 1
                          ELSE CHOOSE k \in missing : \A j \in missing : k <= j
                  rebuilt == SubSeq(rows, 1, stop - 1)
              IN  /\ goFilter' = [goFilter EXCEPT !.procedure = rebuilt]
                  /\ IF missing # {}
                       THEN /\ goPc' = "error"
                            /\ goErr' = "SOSException:InvalidParameterValue:procedure"
                       ELSE /\ goPc' = IF Len(rebuilt) = 0 THEN "done" ELSE "select"
                            /\ goErr' = goErr
       ELSE goPc' = "select" /\ UNCHANGED <<goFilter, goErr>>
  /\ UNCHANGED <<goVersion, goCatalog, goRequest, goResult, goPos, goObs>>

\* GetObservationResponse: the procedures query on istsos.observed_properties_sensor
SelectProcedures_1_0_0 ==
  /\ UNCHANGED <<reqVars, instVars, aggVars, hqVars, profVars, dsVars>>
  /\ goPc = "select"
  /\ goVersion = "1.0.0"
  /\ \E res \in Orders(Selected(goCatalog, goFilter.procedure)) :
       goResult' = [k \in DOMAIN res |-> ProcedureRow_1_0_0(goCatalog, res[k])]
  /\ goPc' = "loop"
  /\ UNCHANGED <<goVersion, goCatalog, goRequest, goFilter, goPos, goObs, goErr>>

\* GetObservationResponse_2_0_0: the search query; "if len(rows)==0: return"
SelectProcedures_2_0_0 ==
  /\ UNCHANGED <<reqVars, instVars, aggVars, hqVars, profVars, dsVars>>
  /\ goPc = "select"
  /\ goVersion = "2.0.0"
  /\ \E rows \in Orders(Selected(goCatalog, goFilter.procedure)) :
       /\ goResult' = [k \in DOMAIN rows |-> ProcedureRow_2_0_0(goCatalog, rows[k])]
       /\ goPc' = IF Len(rows) = 0 THEN "done" ELSE "loop"
  /\ UNCHANGED <<goVersion, goCatalog, goRequest, goFilter, goPos, goObs, goErr>>

\* Observation.baseInfo: procedureType = row["name_oty"]
BaseInfo(row) == [name |-> row.name_prc, procedureType |-> row.name_oty]

\* Observation.setData, "SET DATA": which branch fills the observation
SetDataBranch(procedureType) ==
  IF procedureType # "virtual" THEN "raw" ELSE "derivation"

\* one pass of the loop over the rows: Observation(), baseInfo, setData, append
ObservationPass ==
  /\ UNCHANGED <<reqVars, instVars, aggVars, hqVars, profVars, dsVars>>
  /\ goPc = "loop"
  /\ goPos <= Len(goResult)
  /\ LET ob == BaseInfo(goResult[goPos])
         branch == SetDataBranch(ob.procedureType)
     IN  IF branch = "derivation" /\ ~goCatalog[ob.name].plugin
           THEN /\ goPc' = "error"
                /\ goErr' = "Exception"
                /\ UNCHANGED <<goObs, goPos>>
           ELSE /\ goObs' = Append(goObs, [name |-> ob.name,
                                           procedureType |-> ob.procedureType,
                                           source |-> branch])
                /\ goPos' = goPos + 1
                /\ UNCHANGED <<goPc, goErr>>
  /\ UNCHANGED <<goVersion, goCatalog, goRequest, goFilter, goResult>>

\* the loop over the rows is exhausted: __init__ returns
ObservationsDone ==
  /\ UNCHANGED <<reqVars, instVars, aggVars, hqVars, profVars, dsVars>>
  /\ goPc = "loop"
  /\ goPos > Len(goResult)
  /\ goPc' = "done"
  /\ UNCHANGED <<goVersion, goCatalog, goRequest, goFilter, goResult, goPos, goObs,
                 goErr>>

NextGO ==
  \/ CheckProcedure_1_0_0
  \/ CheckProcedure_2_0_0
  \/ SelectProcedures_1_0_0
  \/ SelectProcedures_2_0_0
  \/ ObservationPass
  \/ ObservationsDone

(***************************************************************************)
(* SpecDS: DescribeSensorResponse.__init__                                 *)
(***************************************************************************)
\* the row of procedures joined with obs_type for filter.procedure
DsRows == {AbsentRow} \cup LeafRows \cup {VirtualRow}

\* the file system and the sensor view as __init__ finds them; vp is what
\* vp.getSampligTime() of the plugin returns
DsEnvs == [plugin : BOOLEAN, sensorMLpath : BOOLEAN, smlFile : BOOLEAN,
           sensor : BOOLEAN, vp : {<<None, None>>, <<1, 5>>}]

NoSelf == [procedureType |-> "unset", stime |-> None, etime |-> None]

\* pgdb.select(sql, params) of the lookup: the list of the rows found
LookupRows(row) == IF row.oty = "absent" THEN <<>> ELSE <<row>>

\* "if res==None": an empty list is not None
IsNoneResult(res) == FALSE

\* try: res[0][column] except: None
FirstOrNone(res, column) ==
  IF Len(res) = 0 THEN IF column = "name_oty" THEN "None" ELSE None
  ELSE IF column = "name_oty" THEN res[1].oty
  ELSE IF column = "stime_prc" THEN res[1].stime
  ELSE res[1].etime

IdleDS ==
  /\ dsCatalog = AbsentRow
  /\ dsEnv = [plugin |-> FALSE, sensorMLpath |-> FALSE, smlFile |-> FALSE,
              sensor |-> FALSE, vp |-> <<None, None>>]
  /\ dsRes = <<>>
  /\ dsSelf = NoSelf
  /\ dsPc = "idle"
  /\ dsErr = "none"

InitDS ==
  /\ dsCatalog \in DsRows
  /\ dsEnv \in DsEnvs
  /\ dsRes = <<>>
  /\ dsSelf = NoSelf
  /\ dsPc = "lookup"
  /\ dsErr = "none"

\* the lookup, the test on res, procedureType, stime and etime
LookupProcedure ==
  /\ UNCHANGED <<reqVars, instVars, aggVars, hqVars, profVars, goVars>>
  /\ dsPc = "lookup"
  /\ LET res == LookupRows(dsCatalog)
         procedureType == FirstOrNone(res, "name_oty")
     IN  /\ dsRes' = res
         /\ IF IsNoneResult(res)
              THEN /\ dsPc' = "error"
                   /\ dsErr' = "SOSException:InvalidParameterValue:procedure"
                   /\ UNCHANGED dsSelf
              ELSE /\ dsSelf' =
                        IF procedureType = "virtual"
                          THEN [procedureType |-> procedureType,
                                stime |-> IF dsEnv.plugin THEN dsEnv.vp[1] ELSE None,
                                etime |-> IF dsEnv.plugin THEN dsEnv.vp[2] ELSE None]
                          ELSE [procedureType |-> procedureType,
                                stime |-> FirstOrNone(res, "stime_prc"),
                                etime |-> FirstOrNone(res, "etime_prc")]
                   /\ dsPc' = "sensorml"
                   /\ UNCHANGED dsErr
  /\ UNCHANGED <<dsCatalog, dsEnv>>

\* "check if folder containing SensorML exists", "check if file exist"
SensorML ==
  /\ UNCHANGED <<reqVars, instVars, aggVars, hqVars, profVars, goVars>>
  /\ dsPc = "sensorml"
  /\ IF ~dsEnv.sensorMLpath \/ ~dsEnv.smlFile
       THEN dsPc' = "error" /\ dsErr' = "Exception"
       ELSE dsPc' = "properties" /\ UNCHANGED dsErr
  /\ UNCHANGED <<dsCatalog, dsEnv, dsRes, dsSelf>>

\* observedProperties, then the sensor-properties query: "if not results: raise
\* Exception("Sensor does not exist.")", raised again as Exception("Error! ...")
SensorProperties ==
  /\ UNCHANGED <<reqVars, instVars, aggVars, hqVars, profVars, goVars>>
  /\ dsPc = "properties"
  /\ IF ~dsEnv.sensor
       THEN dsPc' = "error" /\ dsErr' = "Exception"
       ELSE dsPc' = "done" /\ UNCHANGED dsErr
  /\ UNCHANGED <<dsCatalog, dsEnv, dsRes, dsSelf>>

NextDS ==
  \/ LookupProcedure
  \/ SensorML
  \/ SensorProperties

(***************************************************************************)
(* The specifications                                                      *)
(***************************************************************************)
vars == <<reqVars, instVars, aggVars, hqVars, profVars, goVars, dsVars>>

Init == InitReq /\ IdleInst /\ IdleAgg /\ IdleHQ /\ IdleProfile /\ IdleGO /\ IdleDS

Next == NextReq

Spec == Init /\ [][Next]_vars

InitI == IdleReq /\ IdleInst /\ IdleAgg /\ IdleHQ /\ IdleProfile /\ IdleGO /\ IdleDS

SpecInst == InitI /\ [][NextInst]_vars

InitA == IdleReq /\ IdleInst /\ InitAgg /\ IdleHQ /\ IdleProfile /\ IdleGO /\ IdleDS

SpecAgg == InitA /\ [][NextAgg]_vars

InitH == IdleReq /\ IdleInst /\ IdleAgg /\ InitHQ /\ IdleProfile /\ IdleGO /\ IdleDS

SpecHQ == InitH /\ [][NextHQ]_vars

InitP == IdleReq /\ IdleInst /\ IdleAgg /\ IdleHQ /\ InitProfile /\ IdleGO /\ IdleDS

SpecProfile == InitP /\ [][NextProfile]_vars

InitG == IdleReq /\ IdleInst /\ IdleAgg /\ IdleHQ /\ IdleProfile /\ InitGO /\ IdleDS

SpecGO == InitG /\ [][NextGO]_vars

InitD == IdleReq /\ IdleInst /\ IdleAgg /\ IdleHQ /\ IdleProfile /\ IdleGO /\ InitDS

SpecDS == InitD /\ [][NextDS]_vars

(***************************************************************************)
(* Claims on sampling-time resolution and on the order of a request        *)
(***************************************************************************)
SetMin(S) == CHOOSE x \in S : \A y \in S : x <= y
SetMax(S) == CHOOSE x \in S : \A y \in S : x >= y

\* setSampligTime has returned normally from its query
Resolved == pc \in {"execute", "execute_error", "aggregate", "done"} /\ leaves # <<>>

LeafSet == SeqToSet(leaves)
DefinedLeaves == {p \in LeafSet : FullyDefined(catalog, p)}

\* C1: with two or more leaf dependencies the resolved sampling time is (minimum of
\* the starts, maximum of the ends) over the leaves whose start and end are both
\* defined, leaves with an undefined bound being left out.
C1_MinMaxOverDefinedLeaves ==
  (Resolved /\ Cardinality(LeafSet) >= 2) =>
    samplingTime =
      IF DefinedLeaves = {}
        THEN <<None, None>>
        ELSE <<SetMin({catalog[p].stime : p \in DefinedLeaves}),
               SetMax({catalog[p].etime : p \in DefinedLeaves})>>

\* C2 as stated: with exactly one leaf dependency the resolved sampling time is that
\* dependency's declared (start, end), whatever the declared interval is.
C2_SingleLeafDeclaredInterval ==
  (Resolved /\ Cardinality(LeafSet) = 1) =>
    \A p \in LeafSet : samplingTime = <<catalog[p].stime, catalog[p].etime>>

\* C2 amended: with exactly one leaf dependency the resolved sampling time is that
\* dependency's declared (start, end) when both bounds are defined, and (None, None)
\* when either bound is undefined.
C2_SingleLeafDefinedInterval ==
  (Resolved /\ Cardinality(LeafSet) = 1) =>
    \A p \in LeafSet :
      samplingTime = IF FullyDefined(catalog, p)
                       THEN <<catalog[p].stime, catalog[p].etime>>
                       ELSE <<None, None>>

C2_Witness ==
  /\ pc = "done"
  /\ Cardinality(LeafSet) = 1
  /\ \A p \in LeafSet : FullyDefined(catalog, p)
  /\ samplingTime = <<3, 10>>
  /\ obsSamplingTime = <<3, 10>>

\* C3: when several dependencies are absent from the catalog the error that ends
\* setSampligTime names every one of them.
C3_AllMissingNamed ==
  (pc = "resolve_error" /\ err.type # "IndexError") =>
    {p \in SeqToSet(procedures) : ~ProcedureFound(catalog, p)} \subseteq err.names

\* the dependencies a virtual procedure's plugin contributes to the candidate list
VpDeps(p) ==
  IF p \in VirtNames /\ IsVirtual(catalog, p) /\ plugins[p].file
    THEN SeqToSet(plugins[p].procedures)
    ELSE {}

RECURSIVE Closure(_, _)
Closure(S, n) ==
  IF n = 0 THEN S ELSE Closure(S \cup UNION {VpDeps(q) : q \in S}, n - 1)

\* p depends on itself, directly or transitively
OnCycle(p) == p \in Closure(VpDeps(p), Cardinality(Names))

\* how many times the loop of setSampligTime has gone through p so far
Expansions(p) == Cardinality({i \in 1..(idx - 1) : i <= Len(tmp) /\ tmp[i] = p})

\* C4: a virtual procedure that depends on itself is rejected, not expanded again:
\* resolution never goes a second time through a virtual procedure that lies on a
\* dependency cycle (each such pass appends its dependencies to the candidate list once
\* more, without bound).
C4_CycleNotExpandedAgain ==
  \A p \in VirtNames : OnCycle(p) => Expansions(p) <= 1

\* C6: no dependency data is fetched before sampling-time resolution has gone through
\* every candidate and set the sampling time; a request whose resolution raised has
\* fetched nothing.
C6_ResolveBeforeFetch ==
  /\ fetchLog # <<>> => (obsSamplingTime # Unset /\ idx > Len(tmp))
  /\ pc = "resolve_error" => fetchLog = <<>>

C6_Witness ==
  /\ pc = "done"
  /\ Len(fetchLog) = 2
  /\ Len(tmp) > Len(procedures)
  /\ obsSamplingTime # Unset

Reachable == Closure(SeqToSet(procedures), Cardinality(Names))
Acyclic == \A p \in Reachable : ~OnCycle(p)

\* the list a virtual procedure's plugin contributes, in its order
VpDepList(p) ==
  IF p \in VirtNames /\ IsVirtual(catalog, p) /\ plugins[p].file
    THEN plugins[p].procedures
    ELSE <<>>

RECURSIVE PathsFrom(_, _)
RECURSIVE PathsFromList(_, _)
\* the number of dependency paths of at most n steps that start with p
PathsFrom(p, n) == 1 + (IF n = 0 THEN 0 ELSE PathsFromList(VpDepList(p), n - 1))
PathsFromList(list, n) ==
  IF Len(list) = 0 THEN 0 ELSE PathsFrom(Head(list), n) + PathsFromList(Tail(list), n)

\* the loop of setSampligTime has gone through the whole candidate list
LoopFinished == pc \notin {"idle", "init"} /\ idx > Len(tmp)

\* C25: for an acyclic dependency graph the candidate list never grows beyond one
\* entry per dependency path, so the loop ends, and when it has ended the leaf set
\* that the reduction takes, duplicates removed, is exactly the set of non-virtual
\* procedures reachable from the declared dependencies through virtual ones.
C25_LeafSetIsReachableLeaves ==
  Acyclic =>
    /\ Len(tmp) <= PathsFromList(procedures, Cardinality(Names))
    /\ LoopFinished =>
         /\ Len(tmp) = PathsFromList(procedures, Cardinality(Names))
         /\ LeafSet = {p \in Reachable : ~IsVirtual(catalog, p)}

C25_Witness ==
  /\ pc = "done"
  /\ Acyclic
  /\ procedures = <<"V", "W">>
  /\ plugins["V"].procedures = <<"A", "W">>
  /\ plugins["W"].procedures = <<"A", "B">>
  /\ leaves = <<"A", "A", "B", "A", "B">>
  /\ LeafSet = {"A", "B"}

\* C27: when setSampligTime ends with an empty candidate set, because no dependency
\* was declared or because the declared virtual dependencies expand to no
\* non-virtual procedure, the sampling time is (None, None) and nothing is raised.
C27_NoCandidateGivesUndefinedInterval ==
  (LoopFinished /\ pc # "resolve" /\ leaves = <<>>) =>
    /\ samplingTime = <<None, None>>
    /\ pc # "resolve_error"
    /\ err = NoErr

(***************************************************************************)
(* Claims on the aggregator                                                *)
(***************************************************************************)
\* the values of column c of the samples of the input series with lo < t <= hi,
\* in input order
SamplesIn(lo, hi, c) ==
  LET Inside(row) == lo < row[1] /\ row[1] <= hi
      rows == SelectSeq(series, Inside)
  IN  [k \in DOMAIN rows |-> rows[k][c + 1]]

Columns == DOMAIN observation.observedProperty
OrdinaryColumns == {c \in Columns : ~IsQualityIndex(observation.observedProperty[c])}
QualityColumns == {c \in Columns : IsQualityIndex(observation.observedProperty[c])}
Width == filter.aggregate_interval

\* the output rows, once applyFunction has returned
OutputRows == IF aggPc = "done" THEN DOMAIN observation.data ELSE {}
EdgeOf(k) == observation.data[k][1]
SamplesOfRow(k, c) == SamplesIn(EdgeOf(k) - Width, EdgeOf(k), c)

\* C7: a sample whose timestamp equals a bucket edge is counted in the bucket whose
\* upper edge is that instant and not in the bucket that the edge opens: the bucket
\* ending at the edge holds exactly the samples of (edge - duration, edge], the bucket
\* starting at it exactly those of (edge, edge + duration].
C7_EdgeSampleInEarlierBucket ==
  \A e \in DOMAIN result : \A k \in DOMAIN series :
    (Width > 0 /\ series[k][1] = e) =>
      \A c \in Columns :
        /\ result[e][c] = SamplesIn(e - Width, e, c)
        /\ Len(result[e][c]) >= 1
        /\ (e + Width) \in DOMAIN result =>
             result[e + Width][c] = SamplesIn(e, e + Width, c)

C7_Witness ==
  /\ aggPc = "done"
  /\ \E e \in DOMAIN result : \E k \in DOMAIN series :
       /\ series[k][1] = e
       /\ (e + Width) \in DOMAIN result
       /\ Len(result[e + Width][1]) >= 1

\* C8: a bucket with no samples emits aggregate_nodata in every ordinary column and
\* aggregate_nodata_qi in every quality-index column, whatever the reduction.
C8_EmptyBucketSentinels ==
  \A k \in OutputRows :
    /\ \A c \in OrdinaryColumns :
         Len(SamplesOfRow(k, c)) = 0 => observation.data[k][c + 1] = filter.aggregate_nodata
    /\ \A c \in QualityColumns :
         Len(SamplesOfRow(k, c)) = 0 => observation.data[k][c + 1] = filter.aggregate_nodata_qi

C8_Witness ==
  /\ aggPc = "done"
  /\ QualityColumns # {}
  /\ filter.aggregate_nodata # filter.aggregate_nodata_qi
  /\ \E k \in OutputRows : Len(SamplesOfRow(k, 1)) = 0
  /\ \E k \in OutputRows : Len(SamplesOfRow(k, 1)) >= 1

\* the requested function is COUNT, in any letter case
IsCount == Len(filter.aggregate_function) = 5 /\ filter.aggregate_function[1] \in {"C", "c"}

\* C9 as stated: with COUNT every ordinary column of every bucket holds the number of
\* samples of the bucket, 0 for a bucket with no samples.
C9_CountAlsoForEmptyBucket ==
  IsCount =>
    \A k \in OutputRows : \A c \in OrdinaryColumns :
      observation.data[k][c + 1] = Fx(Len(SamplesOfRow(k, c)))

\* C9 amended: with COUNT an ordinary column of a bucket that has samples holds their
\* number, each sample counted once; a bucket with no samples holds the no-data
\* sentinel aggregate_nodata, not 0.
C9_CountOfNonEmptyBucket ==
  IsCount =>
    \A k \in OutputRows : \A c \in OrdinaryColumns :
      observation.data[k][c + 1] =
        IF Len(SamplesOfRow(k, c)) = 0
          THEN filter.aggregate_nodata
          ELSE Fx(Len(SamplesOfRow(k, c)))

C9_Witness ==
  /\ aggPc = "done"
  /\ IsCount
  /\ \E k \in OutputRows : Len(SamplesOfRow(k, 1)) = 0
  /\ \E k \in OutputRows : Len(SamplesOfRow(k, 1)) = 2 /\ observation.data[k][2] = Fx(2)

LowerMap == [A |-> "a", G |-> "g", I |-> "i", M |-> "m", N |-> "n", S |-> "s",
             U |-> "u", V |-> "v", X |-> "x"]
LowerChar(ch) == IF ch \in DOMAIN LowerMap THEN LowerMap[ch] ELSE ch
\* the requested function is the given lower-case name, in any letter case
Requested(name) ==
  /\ Len(filter.aggregate_function) = Len(name)
  /\ \A k \in DOMAIN name : LowerChar(filter.aggregate_function[k]) = name[k]

\* C10: for a bucket with samples and an ordinary column the output is the sum, the
\* maximum, the minimum or the average rounded to 4 decimals of exactly the values of
\* the bucket's samples, by the requested function whatever its letter case.
C10_ReductionOfBucketValues ==
  \A k \in OutputRows : \A c \in OrdinaryColumns :
    LET vals == SamplesOfRow(k, c)
        set == {vals[j] : j \in DOMAIN vals}
        idxs == DOMAIN vals
        out == observation.data[k][c + 1]
    IN  Len(vals) >= 1 =>
          /\ Requested(<<"s", "u", "m">>) => out = SeqSum(vals)
          /\ Requested(<<"m", "a", "x">>) => (out \in set /\ \A x \in set : x <= out)
          /\ Requested(<<"m", "i", "n">>) => (out \in set /\ \A x \in set : x >= out)
          /\ Requested(<<"a", "v", "g">>) =>
               2 * Abs(out * Len(vals) - SeqSum(vals)) <= Len(vals)

C10_Witness ==
  /\ aggPc = "done"
  /\ filter.aggregate_function = <<"a", "v", "g">>
  /\ \E k \in OutputRows :
       /\ Len(SamplesOfRow(k, 1)) = 3
       /\ SeqSum(SamplesOfRow(k, 1)) = Fx(5)
       /\ observation.data[k][2] = 16667

\* C11: in a quality-index column a bucket with samples holds the minimum quality
\* code among the samples of that bucket, whatever reduction was requested for the
\* ordinary columns.
C11_QualityColumnIsMinimum ==
  \A k \in OutputRows : \A c \in QualityColumns :
    LET vals == SamplesOfRow(k, c)
        set == {vals[j] : j \in DOMAIN vals}
        out == observation.data[k][c + 1]
    IN  Len(vals) >= 1 => (out \in set /\ \A x \in set : out <= x)

C11_Witness ==
  /\ aggPc = "done"
  /\ filter.aggregate_function = <<"M", "a", "x">>
  /\ \E k \in OutputRows : \E c \in QualityColumns :
       /\ Len(SamplesOfRow(k, c)) = 2
       /\ SamplesOfRow(k, c) = <<Fx(100), Fx(110)>>
       /\ observation.data[k][c + 1] = Fx(100)

\* the number of buckets (dt, dt + d] whose lower edge is before end
BucketCount == (filter.end - filter.begin + Width - 1) \div Width

\* C12: for begin < end and a positive duration d the bucket loop advances by d on
\* every pass and stops with the first edge that is not before end, and the output
\* has exactly one row per bucket, with the upper edges begin + d, begin + 2d, ... up
\* to the bucket that starts before end (ceil((end - begin) / d) rows), in strictly
\* ascending order, each row holding the edge and one value per column.
C12_OneRowPerBucketAscending ==
  (filter.begin < filter.end /\ Width > 0) =>
    /\ aggPc = "loop" =>
         /\ dt < filter.end + Width
         /\ \E j \in 0..BucketCount :
              /\ dt = filter.begin + j * Width
              /\ DOMAIN result = {filter.begin + i * Width : i \in 1..j}
    /\ aggPc = "done" =>
         /\ Len(observation.data) = BucketCount
         /\ \A k \in DOMAIN observation.data :
              /\ EdgeOf(k) = filter.begin + k * Width
              /\ Len(observation.data[k]) = 1 + Len(observation.observedProperty)

C12_Witness ==
  /\ aggPc = "done"
  /\ filter.begin = 1 /\ filter.end = 4 /\ Width = 2
  /\ Len(observation.data) = 2
  /\ EdgeOf(1) = 3 /\ EdgeOf(2) = 5
  /\ Len(observation.data[2]) = 3

\* the requested function is one of the five that applyFunction implements
KnownFunction ==
  Upper(filter.aggregate_function) \in
    {<<"S", "U", "M">>, <<"M", "A", "X">>, <<"M", "I", "N">>, <<"A", "V", "G">>,
     <<"C", "O", "U", "N", "T">>}

\* C22: called with a function outside SUM, MAX, MIN, AVG, COUNT or with a zero or
\* negative duration the aggregator ends with an error: it does not return, and it
\* runs no pass of the bucket loop that leaves the edge where it was.
C22_InvalidAggregationRaises ==
  (~KnownFunction \/ Width <= 0) =>
    /\ aggPc # "done"
    /\ aggPc = "loop" => ~(dt < filter.end /\ dt + Width <= dt)

\* C28: every sample with begin < t <= last edge is in the bucket whose edges
\* enclose it and in no other, a sample with t <= begin is in none, and every bucket
\* holds exactly the samples of (edge - duration, edge], also for a series with a
\* sample at the lower edge of the first bucket.
C28_EverySampleInOneBucket ==
  Width > 0 =>
    /\ \A e \in DOMAIN result : \A c \in Columns :
         result[e][c] = SamplesIn(e - Width, e, c)
    /\ \A k \in DOMAIN series :
         LET t == series[k][1]
             holders == {e \in DOMAIN result : e - Width < t /\ t <= e}
         IN  Cardinality(holders) =
               IF aggPc # "call" /\ filter.begin < t /\ t <= dt THEN 1 ELSE 0

C28_Witness ==
  /\ aggPc = "done"
  /\ Width = 1
  /\ Len(series) = 3
  /\ series[1][1] = filter.begin
  /\ series[2][1] = filter.begin + 1
  /\ series[3][1] = filter.begin + 2
  /\ Len(result[filter.begin + 1][1]) = 1
  /\ Len(result[filter.begin + 2][1]) = 1

(***************************************************************************)
(* Claims on the rating curve                                              *)
(***************************************************************************)
\* the samples that the loop of execute has gone through
Processed == DOMAIN emitted
ReadingOf(k) == hqData[k][2]
\* the reading is present and not below -999.0
Usable(k) == ReadingOf(k) # None /\ ReadingOf(k) >= Fx(-999)
\* the loaded segments valid for the sample's timestamp and value, by table position
MatchingSegments(k) ==
  {o \in DOMAIN hqCurves :
     /\ hqCurves[o].from < hqData[k][1] /\ hqData[k][1] <= hqCurves[o].to
     /\ hqCurves[o].low <= ReadingOf(k) /\ ReadingOf(k) < hqCurves[o].up}
FirstMatching(k) == CHOOSE o \in MatchingSegments(k) : \A j \in MatchingSegments(k) : o <= j
\* the one-row answer (-999.9, quality 120) for sample k
Rejected120(k) == <<(<<hqData[k][1], Rejected, 120>>)>>

\* C14: under quality reporting a sample whose value is below -999.0, and a sample
\* whose value is missing, yields the output (-999.9, quality 120).
C14_LowOrMissingGives120 ==
  hqFilter.qualityIndex =>
    \A k \in Processed : ~Usable(k) => emitted[k] = Rejected120(k)

\* C15: when several loaded segments are valid for a sample's timestamp and value,
\* exactly one output row is produced for the sample, computed from the first such
\* segment in table order only: its transform, or the rejection when the value is
\* below its offset B.
C15_FirstMatchingSegmentOnly ==
  \A k \in Processed :
    (Usable(k) /\ Cardinality(MatchingSegments(k)) >= 2) =>
      LET curve == hqCurves[FirstMatching(k)]
          value == IF ReadingOf(k) - curve.B >= 0
                     THEN Transform(curve, ReadingOf(k))
                     ELSE Rejected
          quality == IF ReadingOf(k) - curve.B >= 0 THEN hqData[k][3] ELSE 120
      IN  /\ Len(emitted[k]) = 1
          /\ emitted[k][1][1] = hqData[k][1]
          /\ emitted[k][1][2] = value
          /\ hqFilter.qualityIndex => emitted[k][1][3] = quality

C15_Witness ==
  /\ hqPc = "done"
  /\ hqFilter.qualityIndex
  /\ Len(hqCurves) = 2
  /\ hqCurves[1].A = Fx(1) /\ hqCurves[2].A = Fx(2)
  /\ \E k \in Processed :
       /\ MatchingSegments(k) = {1, 2}
       /\ ReadingOf(k) = Fx(2)
       /\ emitted[k] = <<(<<2, [text |-> TRUE, num |-> Fx(2)], 100>>)>>
       /\ ReadingOf(k) - hqCurves[2].B < 0

\* C16: under quality reporting a sample with a present value not below -999.0 that no
\* loaded segment matches, or whose first matching segment has (value - B) < 0, yields
\* the output (-999.9, quality 120), for every loaded table, the empty one included.
C16_NoMatchGives120 ==
  hqFilter.qualityIndex =>
    \A k \in Processed :
      (Usable(k) /\ (MatchingSegments(k) = {}
                     \/ ReadingOf(k) - hqCurves[FirstMatching(k)].B < 0)) =>
        emitted[k] = Rejected120(k)

\* the search over the segments is entered for sample k
Searched(k) ==
  /\ ReadingOf(k) # None
  /\ hqFilter.qualityIndex => ReadingOf(k) >= Fx(-999)

\* C26: a loaded segment applies to a sample (t, v) exactly when from < t <= to and
\* low <= v < up, with and without quality reporting: the row emitted for a sample
\* that enters the search of a non-empty table is the answer of the first segment
\* for which these four inequalities hold, and the rejection when they hold for none.
C26_HalfOpenMatch ==
  \A k \in Processed :
    (Searched(k) /\ Len(hqCurves) >= 1) =>
      /\ Len(emitted[k]) = 1
      /\ emitted[k][1][2] =
           IF MatchingSegments(k) = {} THEN Rejected
           ELSE IF ReadingOf(k) - hqCurves[FirstMatching(k)].B >= 0
             THEN Transform(hqCurves[FirstMatching(k)], ReadingOf(k))
             ELSE Rejected

\* a value at the lower bound of the first segment is transformed by it; a value at
\* its upper bound is passed on to the second segment
C26_Witness ==
  /\ hqPc = "done"
  /\ Len(hqCurves) = 2
  /\ hqCurves[1].low = Fx(2) /\ hqCurves[1].up = Fx(5) /\ hqCurves[1].to = 4
  /\ hqCurves[2].up = Fx(10) /\ hqCurves[2].to = 8 /\ hqCurves[2].B = Fx(3)
  /\ Len(hqData) = 2
  /\ hqData[1][1] = 2 /\ ReadingOf(1) = Fx(2)
  /\ hqData[2][1] = 2 /\ ReadingOf(2) = Fx(5)
  /\ emitted[1][1][2] = [text |-> TRUE, num |-> Fx(2)]
  /\ emitted[2][1][2] = [text |-> TRUE, num |-> Fx(9)]

\* C29: execute returns one row per input row, in input order and with the input's
\* timestamp, of width 3 under quality reporting and of width 2 without it, for
\* every input value and every loaded table, the table without segments included.
C29_OneRowPerInputRow ==
  hqPc = "done" =>
    /\ Len(dataOut) = Len(hqData)
    /\ \A k \in DOMAIN hqData :
         /\ dataOut[k][1] = hqData[k][1]
         /\ Len(dataOut[k]) = IF hqFilter.qualityIndex THEN 3 ELSE 2

\* C30: the derivation leaves the caller's filter as it received it: procedure list,
\* observed properties, event time, aggregate_interval and aggregate_function are
\* the same after _configure, after the rewriting of the event time in
\* setDischargeCurves and after getData; self.filter still holds the aggregation
\* settings after getData, whose sub-request has them cleared.
C30_CallerFilterUntouched ==
  /\ hqRequest = hqSent
  /\ hqPc \in {"loop", "done"} =>
       /\ hqFilter.aggregate_interval = hqSent.aggregate_interval
       /\ hqFilter.aggregate_function = hqSent.aggregate_function
       /\ hqFilter.procedure = hqSent.procedure
       /\ hqFilter.observedProperty = hqSent.observedProperty
       /\ \A k \in DOMAIN hqSub :
            /\ hqSub[k].aggregate_interval = None
            /\ hqSub[k].procedure = FirstProcedure

C30_Witness ==
  /\ hqPc = "done"
  /\ hqSent.eventTime.style = "basic"
  /\ hqFilter.eventTime.style = "basic+00:00"
  /\ hqRequest.eventTime.style = "basic"
  /\ Len(hqSub) = 1
  /\ hqSub[1].aggregate_interval = None
  /\ hqFilter.aggregate_interval = 1
  /\ hqRequest.aggregate_interval = 1

\* setDischargeCurves has returned normally
CurvesLoaded == hqPc \in {"getdata", "loop", "done"}

\* the segment written on a line, read through the header names
SegmentOf(head, line) == [name \in SeqToSet(HeaderNames) |-> line[Index(head, name)].v]

\* C17: with a defined request window [p0, p1] the loaded segments are, in file order,
\* exactly the rows whose validity interval overlaps the window: 'to' after p0 and
\* 'from' not after p1.
C17_OnlyOverlappingRowsLoaded ==
  CurvesLoaded =>
    LET period == Period(hqFilter.eventTime.times)
        Overlaps(line) ==
          /\ SegmentOf(hqFile.head, line).to > period[1]
          /\ SegmentOf(hqFile.head, line).from <= period[2]
        rows == SelectSeq(hqFile.lines, Overlaps)
    IN  hqCurves = [k \in DOMAIN rows |-> CurveOf(hqFile.head, rows[k])]

\* C18: the outcome of loading is the same for every permutation of the file's
\* columns, header permuted with the data: the same segments in the same order.
C18_LoadingIgnoresColumnOrder ==
  (CurvesLoaded \/ hqErr = "ISO8601Error") =>
    \A head \in Headers :
      LET lines == [k \in DOMAIN hqFile.lines |->
                      LineOf(head, SegmentOf(hqFile.head, hqFile.lines[k]))]
          loaded == LoadCurves(head, lines, Period(hqFilter.eventTime.times), 1, <<>>)
      IN  /\ loaded.raised = (hqErr = "ISO8601Error")
          /\ ~loaded.raised => loaded.hqs = hqCurves

(***************************************************************************)
(* Claims on the profile composition                                       *)
(***************************************************************************)
\* C19: whenever execute returns normally every output row, not only the first, has
\* exactly N + 1 columns for the N observed properties of self.obs.
C19_EveryRowHasRequestedWidth ==
  profPc = "done" =>
    \A k \in DOMAIN profData : Len(profData[k]) = Len(profObs) + 1

\* C20: the returned rows are in ascending timestamp order, and rows of equal
\* timestamp are in descending order of the column of the second sort: the quality
\* column row[4] under quality reporting, the value column row[3] otherwise.
C20_TimestampThenKeyOrder ==
  profPc = "done" =>
    \A i \in DOMAIN profData : \A j \in DOMAIN profData :
      i < j =>
        \/ profData[i][1] < profData[j][1]
        \/ /\ profData[i][1] = profData[j][1]
           /\ profData[i][SecondKey(profFilter.qualityIndex)]
                >= profData[j][SecondKey(profFilter.qualityIndex)]

(***************************************************************************)
(* Claims on the responders                                                *)
(***************************************************************************)
\* C21: every observation of a response, of either version, is filled by the
\* derivation when the catalog kind of its procedure is 'virtual' and by the raw
\* measures query when the procedure is a physical one.
C21_VirtualFromDerivation ==
  \A k \in DOMAIN goObs :
    LET oty == goCatalog[goObs[k].name].oty
    IN  /\ oty = "virtual" => goObs[k].source = "derivation"
        /\ oty = "insitu-fixed-point" => goObs[k].source = "raw"

\* C23: for a procedure name that the lookup does not find, DescribeSensorResponse
\* ends at the lookup with SOSException InvalidParameterValue on 'procedure': it
\* reaches no later step, and no generic error.
C23_AbsentProcedureIsInvalidParameter ==
  (dsCatalog.oty = "absent" /\ dsPc # "lookup") =>
    /\ dsPc = "error"
    /\ dsErr = "SOSException:InvalidParameterValue:procedure"

\* every procedure named in the request is absent from the catalog
NamedAbsent ==
  goRequest # <<>> /\ \A n \in SeqToSet(goRequest) : goCatalog[n].oty = "absent"
\* no procedure of the catalog satisfies the request's filters together
NoMatch == Selected(goCatalog, goRequest) = {}

\* C24: GetObservationResponse_2_0_0 for a request whose named procedures do not
\* exist, or whose filters no procedure satisfies, raises nothing and holds an empty
\* list of observations.
C24_EmptyResponseWithoutError ==
  (goVersion = "2.0.0" /\ (NamedAbsent \/ NoMatch)) =>
    /\ goPc # "error"
    /\ goErr = "none"
    /\ goObs = <<>>

====
